---- MODULE Spec2Model ----
(***************************************************************************)
(* EEG-FM-Bench orchestration scripts as one state machine.                *)
(*                                                                         *)
(*   baseline_main.main            model-type dispatch, validation, train  *)
(*   preproc.preproc               pretrain + finetune preprocessing loop  *)
(*   pipeline_main.main            preprocessing of the finetune datasets, *)
(*                                 then run_training                       *)
(*   visualize_results.plot_*      scatter / box plot of aggregated rows   *)
(*                                                                         *)
(* Every call made to an external collaborator (ModelRegistry, a dataset   *)
(* builder, the trainer, the file system, print, matplotlib) is appended   *)
(* to the log `calls`; a collaborator may raise at any call.               *)
(***************************************************************************)
EXTENDS Integers, Sequences, FiniteSets, TLC

VARIABLES
    entry,              \* which script / function is being run
    pc,                 \* position in the code
    result,             \* "running", "ok" or the exception that ended the call
    calls,              \* log of the collaborator calls of the current invocation
    model_type,         \* cfg.get('model_type', None)
    validate_ok,        \* what config.validate_config() returns
    clean_middle_cache, \* conf.clean_middle_cache
    pretrain_datasets,  \* conf.pretrain_datasets (a mutable list object)
    finetune_datasets,  \* conf.finetune_datasets (dict, in insertion order)
    dataset_names,      \* local list of the preprocessing loop
    dataset_configs,    \* local list of the preprocessing loop
    idx,                \* position of the zip iterator (1-based)
    bstep,              \* next builder call inside prepare_dataset
    call_no,            \* number of invocations of preproc(conf) begun
    init_pretrain,      \* history: conf.pretrain_datasets at construction
    entry_pretrain,     \* history: conf.pretrain_datasets at entry of the call
    prev_processed,     \* history: pairs processed by the previous invocation
    columns,            \* results_df.columns
    row_splits,         \* the values of results_df['split'] that occur
    split,              \* the split argument of the plot function
    csv_files,          \* the files glob.glob matched, in the order returned
    dfs,                \* the frames loaded so far
    results             \* what load_all_results returned

vars == <<entry, pc, result, calls, model_type, validate_ok,
          clean_middle_cache, pretrain_datasets, finetune_datasets,
          dataset_names, dataset_configs, idx, bstep, call_no,
          init_pretrain, entry_pretrain, prev_processed,
          columns, row_splits, split, csv_files, dfs, results>>

(***************************************************************************)
(* Bounds of the model.                                                    *)
(***************************************************************************)
MaxPretrain == 2        \* longest conf.pretrain_datasets at construction
MaxFinetune == 2        \* most items of conf.finetune_datasets
MaxCalls == 2           \* invocations of preproc(conf) on the same conf
MaxFiles == 3           \* most CSV files matched under base_dir
MaxRows == 2            \* most records of one CSV file

None == "None"

(***************************************************************************)
(* The registries (defined outside the four scripts).                      *)
(***************************************************************************)
\* ModelRegistry.list_models()
list_models == {"cbramod", "labram"}

\* data.processor.wrapper.DATASET_SELECTOR with each builder's builder_configs
DATASET_SELECTOR ==
    [tuab |-> {"pretrain", "finetune"}, seed_iv |-> {"finetune"}]

ModelTypeInputs == list_models \cup {"unregistered", None}
DatasetNameInputs == (DOMAIN DATASET_SELECTOR) \cup {"unsupported"}
ConfigNameInputs == {"pretrain", "finetune", "bad_cfg"}

(***************************************************************************)
(* Helpers.                                                                *)
(***************************************************************************)
Min(a, b) == IF a < b THEN a ELSE b

SeqsUpTo(S, n) == UNION {[1..k -> S] : k \in 0..n}

\* dict.keys() / dict.values() of a dict kept as a sequence of items
Keys(d) == [i \in 1..Len(d) |-> d[i][1]]
Values(d) == [i \in 1..Len(d) |-> d[i][2]]

\* a dict has no key twice
IsDict(d) == \A i, j \in 1..Len(d) : d[i][1] = d[j][1] => i = j

Call(op, a, b) == <<op, a, b>>

IsBuilderCtor(e) == e[1] = "builder"

\* the (dataset, config) pairs a builder was constructed for, in order
Processed(log) ==
    LET ctor == SelectSeq(log, IsBuilderCtor)
    IN [i \in 1..Len(ctor) |-> <<ctor[i][2], ctor[i][3]>>]

Ops(log) == {log[i][1] : i \in 1..Len(log)}

(***************************************************************************)
(* Initial states: one run of one entry point on one configuration.        *)
(***************************************************************************)
PretrainInputs == SeqsUpTo(DatasetNameInputs, MaxPretrain)

FinetuneInputs ==
    {d \in SeqsUpTo(DatasetNameInputs \X ConfigNameInputs, MaxFinetune) : IsDict(d)}

ColumnInputs == SUBSET {"split", "epoch", "seed", "dropout_rate", "model"}
SplitInputs == {"test", "train", "eval"}

InitLocals ==
    /\ result = "running"
    /\ calls = <<>>
    /\ dataset_names = <<>>
    /\ dataset_configs = <<>>
    /\ idx = 1
    /\ bstep = "none"
    /\ call_no = 0
    /\ prev_processed = <<>>
    /\ init_pretrain = pretrain_datasets
    /\ entry_pretrain = pretrain_datasets

NoTrainConf == model_type = None /\ validate_ok = TRUE

NoPreprocConf ==
    /\ clean_middle_cache = FALSE
    /\ pretrain_datasets = <<>>
    /\ finetune_datasets = <<>>

\* the value of `results` before load_all_results has returned
NotReturned == [kind |-> "unset", rows |-> <<>>]

NoLoad == csv_files = <<>> /\ dfs = <<>> /\ results = NotReturned

NoFrame == columns = {} /\ row_splits = {} /\ split = "test" /\ NoLoad

InitBaseline ==
    /\ entry = "baseline_main"
    /\ pc = "t_model_type"
    /\ model_type \in ModelTypeInputs
    /\ validate_ok \in BOOLEAN
    /\ NoPreprocConf /\ NoFrame /\ InitLocals

InitPreproc ==
    /\ entry = "preproc"
    /\ pc = "p_main"
    /\ clean_middle_cache \in BOOLEAN
    /\ pretrain_datasets \in PretrainInputs
    /\ finetune_datasets \in FinetuneInputs
    /\ NoTrainConf /\ NoFrame /\ InitLocals

InitPipeline ==
    /\ entry = "pipeline_main"
    /\ pc = "m_main"
    /\ model_type \in ModelTypeInputs
    /\ validate_ok \in BOOLEAN
    /\ clean_middle_cache \in BOOLEAN
    /\ pretrain_datasets \in PretrainInputs
    /\ finetune_datasets \in FinetuneInputs
    /\ NoFrame /\ InitLocals

InitPlot ==
    /\ entry \in {"plot_scatter", "plot_box"}
    /\ pc = "v_filter"
    /\ columns \in ColumnInputs
    /\ row_splits \in SUBSET {"test", "train"}
    /\ split \in SplitInputs
    /\ NoLoad
    /\ NoTrainConf /\ NoPreprocConf /\ InitLocals

\* a matched file: whether pd.read_csv can load it, and how many records it has
CsvFileInputs ==
    {[ok |-> TRUE, n |-> n] : n \in 0..MaxRows} \cup {[ok |-> FALSE, n |-> 0]}

InitLoad ==
    /\ entry = "load_all_results"
    /\ pc = "l_glob"
    /\ csv_files \in SeqsUpTo(CsvFileInputs, MaxFiles)
    /\ dfs = <<>>
    /\ results = NotReturned
    /\ columns = {} /\ row_splits = {} /\ split = "test"
    /\ NoTrainConf /\ NoPreprocConf /\ InitLocals

Init == InitBaseline \/ InitPreproc \/ InitPipeline \/ InitPlot \/ InitLoad

trainVars == <<model_type, validate_ok>>
loopVars == <<dataset_names, dataset_configs, idx, bstep>>
histVars == <<call_no, init_pretrain, entry_pretrain, prev_processed>>
frameVars == <<columns, row_splits, split, csv_files, dfs, results>>

\* the call returns normally / ends with exception exc
Finish(at, res) == pc' = at /\ result' = res

(***************************************************************************)
(* The preprocessing loop, shared by preproc.preproc and                   *)
(* pipeline_main.run_preprocessing_all (the two loops are the same code).  *)
(***************************************************************************)
\* if dataset not in DATASET_SELECTOR.keys()
DatasetSupported(dataset) == dataset \in DOMAIN DATASET_SELECTOR

\* if config not in builder_cls.builder_configs.keys()
ConfigSupported_skipped(dataset, config) == TRUE

ConfigSupported(dataset, config) == config \in DATASET_SELECTOR[dataset]

\* raise ValueError(...) for an unsupported dataset or config: the exception
\* leaves the loop and the function
OnInvalidPair_skipped(end_pc) == idx' = idx + 1 /\ UNCHANGED <<pc, result>>

OnInvalidPair(end_pc) == Finish(end_pc, "ValueError") /\ UNCHANGED idx

\* for dataset, config in zip(dataset_names, dataset_configs): the two checks,
\* then the call of prepare_dataset / run_preprocessing
LoopStep(loop_pc, body_pc, end_pc) ==
    /\ pc = loop_pc
    /\ IF idx > Min(Len(dataset_names), Len(dataset_configs))
       THEN /\ Finish(end_pc, "ok")
            /\ UNCHANGED <<idx, bstep>>
       ELSE LET dataset == dataset_names[idx]
                config == dataset_configs[idx]
            IN IF ~DatasetSupported(dataset)
               THEN OnInvalidPair(end_pc) /\ UNCHANGED bstep
               ELSE IF ~ConfigSupported(dataset, config)
                    THEN OnInvalidPair(end_pc) /\ UNCHANGED bstep
                    ELSE /\ pc' = body_pc
                         /\ bstep' = "builder"
                         /\ UNCHANGED <<idx, result>>
    /\ UNCHANGED <<entry, calls, trainVars, clean_middle_cache, pretrain_datasets,
                   finetune_datasets, dataset_names, dataset_configs,
                   histVars, frameVars>>

\* the builder call that follows `step` in prepare_dataset / run_preprocessing
NextBuilderStep_always_clean(step, clean) ==
    CASE step = "builder" -> "clean_disk_cache"
      [] step = "clean_disk_cache" -> "preproc"
      [] step = "preproc" -> "download_and_prepare"
      [] step = "download_and_prepare" -> "as_dataset"
      [] OTHER -> "none"

NextBuilderStep(step, clean) ==
    CASE step = "builder" -> IF clean THEN "clean_disk_cache" ELSE "preproc"
      [] step = "clean_disk_cache" -> "preproc"
      [] step = "preproc" -> "download_and_prepare"
      [] step = "download_and_prepare" -> "as_dataset"
      [] OTHER -> "none"

\* what becomes of the loop when a builder call raises: the exception leaves
\* the function (the try/except around the body is commented out)
OnBuilderError_swallowed(loop_pc, end_pc) ==
    pc' = loop_pc /\ idx' = idx + 1 /\ bstep' = "none" /\ UNCHANGED result

OnBuilderError(loop_pc, end_pc) ==
    Finish(end_pc, "Exception") /\ UNCHANGED <<idx, bstep>>

\* one builder call of prepare_dataset / run_preprocessing
BuilderStep(loop_pc, body_pc, end_pc) ==
    /\ pc = body_pc
    /\ calls' = Append(calls, Call(bstep, dataset_names[idx], dataset_configs[idx]))
    /\ \E raises \in BOOLEAN :
         IF raises
         THEN OnBuilderError(loop_pc, end_pc)
         ELSE LET nxt == NextBuilderStep(bstep, clean_middle_cache)
              IN IF nxt = "none"
                 THEN pc' = loop_pc /\ idx' = idx + 1 /\ bstep' = "none"
                      /\ UNCHANGED result
                 ELSE bstep' = nxt /\ UNCHANGED <<pc, idx, result>>
    /\ UNCHANGED <<entry, trainVars, clean_middle_cache, pretrain_datasets,
                   finetune_datasets, dataset_names, dataset_configs,
                   histVars, frameVars>>

(***************************************************************************)
(* preproc.py                                                              *)
(***************************************************************************)
\* main: PreprocArgs.model_validate(cfg_dict), which may raise
PreprocMain ==
    /\ entry = "preproc" /\ pc = "p_main"
    /\ calls' = Append(calls, Call("PreprocArgs.model_validate", "", ""))
    /\ \E raises \in BOOLEAN :
         IF raises THEN Finish("done", "ValidationError")
         ELSE pc' = "p_idle" /\ UNCHANGED result
    /\ UNCHANGED <<entry, trainVars, clean_middle_cache, pretrain_datasets,
                   finetune_datasets, loopVars, histVars, frameVars>>

\* preproc(conf) is called (by main, or again by a caller that kept conf)
PreprocCall ==
    /\ entry = "preproc" /\ pc = "p_idle"
    /\ call_no < MaxCalls
    /\ call_no' = call_no + 1
    /\ prev_processed' = Processed(calls)
    /\ entry_pretrain' = pretrain_datasets
    /\ calls' = <<>>
    /\ result' = "running"
    /\ pc' = "p_lists"
    /\ UNCHANGED <<entry, trainVars, clean_middle_cache, pretrain_datasets,
                   finetune_datasets, loopVars, init_pretrain, frameVars>>

\* dataset_names = conf.pretrain_datasets binds the list object itself, so
\* dataset_names.extend(...) also extends conf.pretrain_datasets
ExtendedNames(names, finetune) == names \o Keys(finetune)

PreprocConfigs_finetune_first(names, finetune) ==
    Values(finetune) \o [i \in 1..Len(names) |-> "pretrain"]

PreprocConfigs(names, finetune) ==
    [i \in 1..Len(names) |-> "pretrain"] \o Values(finetune)

PreprocLists ==
    /\ entry = "preproc" /\ pc = "p_lists"
    /\ dataset_configs' = PreprocConfigs(pretrain_datasets, finetune_datasets)
    /\ dataset_names' = ExtendedNames(pretrain_datasets, finetune_datasets)
    /\ pretrain_datasets' = dataset_names'
    /\ idx' = 1
    /\ pc' = "p_loop"
    /\ UNCHANGED <<entry, result, calls, trainVars, clean_middle_cache,
                   finetune_datasets, bstep, histVars, frameVars>>

PreprocLoop == entry = "preproc" /\ LoopStep("p_loop", "p_prepare", "p_idle")

prepare_dataset == entry = "preproc" /\ BuilderStep("p_loop", "p_prepare", "p_idle")


(***************************************************************************)
(* pipeline_main.py                                                        *)
(***************************************************************************)
\* the step main takes first after PreprocArgs.model_validate
PipelineFirstStep_training == "t_model_type"

PipelineFirstStep == "r_lists"

\* main: PreprocArgs.model_validate(cfg_dict), then run_preprocessing_all
PipelineMain ==
    /\ entry = "pipeline_main" /\ pc = "m_main"
    /\ calls' = Append(calls, Call("PreprocArgs.model_validate", "", ""))
    /\ \E raises \in BOOLEAN :
         IF raises THEN Finish("done", "ValidationError")
         ELSE pc' = PipelineFirstStep /\ UNCHANGED result
    /\ UNCHANGED <<entry, trainVars, clean_middle_cache, pretrain_datasets,
                   finetune_datasets, loopVars, histVars, frameVars>>

\* run_preprocessing_all: dataset_names = list(finetune_datasets.keys())
PipelineNames_with_pretrain(pretrain, finetune) == pretrain \o Keys(finetune)

PipelineNames(pretrain, finetune) == Keys(finetune)

PipelineLists ==
    /\ entry = "pipeline_main" /\ pc = "r_lists"
    /\ dataset_names' = PipelineNames(pretrain_datasets, finetune_datasets)
    /\ dataset_configs' = Values(finetune_datasets)
    /\ idx' = 1
    /\ pc' = "r_loop"
    /\ UNCHANGED <<entry, result, calls, trainVars, clean_middle_cache,
                   pretrain_datasets, finetune_datasets, bstep, histVars, frameVars>>

\* the loop of run_preprocessing_all; when it ends normally main goes on to
\* run_training, when it raises the exception leaves main
run_preprocessing_all ==
    /\ entry = "pipeline_main"
    /\ LoopStep("r_loop", "r_prepare", "r_end")

run_preprocessing ==
    /\ entry = "pipeline_main"
    /\ BuilderStep("r_loop", "r_prepare", "r_end")

\* main: run_preprocessing_all(preproc_conf) returned or raised
PipelinePreprocEnd ==
    /\ entry = "pipeline_main" /\ pc = "r_end"
    /\ IF result = "ok"
       THEN /\ pc' = "t_model_type"
            /\ result' = "running"
            /\ calls' = Append(calls, Call("run_training", "", ""))
       ELSE pc' = "done" /\ UNCHANGED <<result, calls>>
    /\ UNCHANGED <<entry, trainVars, clean_middle_cache, pretrain_datasets,
                   finetune_datasets, loopVars, histVars, frameVars>>


(***************************************************************************)
(* Model dispatch and training: baseline_main.main and                     *)
(* pipeline_main.run_training (the same steps; run_training first rejects  *)
(* a missing model_type on its own).                                       *)
(***************************************************************************)
\* if model_type not in available_models
ModelTypeKnown_unchecked(m) == TRUE

ModelTypeKnown(m) == m \in list_models

\* if not config.validate_config()
ConfigRejected_ignored(ok) == FALSE

ConfigRejected(ok) == ~ok

TrainFrame ==
    UNCHANGED <<entry, trainVars, clean_middle_cache, pretrain_datasets,
                finetune_datasets, loopVars, histVars, frameVars>>

\* run_training only: if model_type is None: raise ValueError
ModelTypeRequired ==
    /\ pc = "t_model_type"
    /\ model_type = None
    /\ Finish("done", "ValueError")
    /\ UNCHANGED calls
    /\ TrainFrame

\* available_models = ModelRegistry.list_models(); the membership test
CheckModelType ==
    /\ pc = "t_model_type"
    /\ entry = "pipeline_main" => model_type # None
    /\ calls' = Append(calls, Call("list_models", "", ""))
    /\ IF ~ModelTypeKnown(model_type)
       THEN Finish("done", "ValueError")
       ELSE pc' = "t_get_config" /\ UNCHANGED result
    /\ TrainFrame

\* one call of a collaborator that may raise, then on to the next position
TrainCall(at, op, nxt) ==
    /\ pc = at
    /\ calls' = Append(calls, Call(op, "", ""))
    /\ \E raises \in BOOLEAN :
         IF raises THEN Finish("done", "Exception")
         ELSE IF nxt = "done" THEN Finish("done", "ok")
              ELSE pc' = nxt /\ UNCHANGED result
    /\ TrainFrame

\* config_class = ModelRegistry.get_config_class(model_type)
GetConfigClass == TrainCall("t_get_config", "get_config_class", "t_model_validate")

\* OmegaConf.to_container(...); config = config_class.model_validate(cfg_dict)
ModelValidate == TrainCall("t_model_validate", "model_validate", "t_validate_config")

\* if not config.validate_config(): raise ValueError
ValidateConfig ==
    /\ pc = "t_validate_config"
    /\ calls' = Append(calls, Call("validate_config", "", ""))
    /\ IF ConfigRejected(validate_ok)
       THEN Finish("done", "ValueError")
       ELSE pc' = "t_mkdir" /\ UNCHANGED result
    /\ TrainFrame

\* output_dir.mkdir(parents=True, exist_ok=True)
MakeOutputDir == TrainCall("t_mkdir", "mkdir", "t_create_trainer")

\* trainer = ModelRegistry.create_trainer(config)
CreateTrainer == TrainCall("t_create_trainer", "create_trainer", "t_run")

\* trainer.run()
TrainerRun == TrainCall("t_run", "trainer.run", "done")

TrainingSteps ==
    \/ CheckModelType
    \/ GetConfigClass
    \/ ModelValidate
    \/ ValidateConfig
    \/ MakeOutputDir
    \/ CreateTrainer
    \/ TrainerRun

baseline_main == entry = "baseline_main" /\ TrainingSteps

run_training == entry = "pipeline_main" /\ (ModelTypeRequired \/ TrainingSteps)


(***************************************************************************)
(* visualize_results.py: plot_results_by_dropout_scatter and               *)
(* plot_results_by_dropout_box.  The frame is kept as its set of columns   *)
(* and the set of split values its rows hold; indexing a frame by a column *)
(* it does not have raises KeyError.                                       *)
(***************************************************************************)
groupby_cols == {"model", "dataset", "seed", "dropout_rate"}

PlotFrame ==
    UNCHANGED <<entry, trainVars, clean_middle_cache, pretrain_datasets,
                finetune_datasets, loopVars, histVars, frameVars>>

IsPlot == entry \in {"plot_scatter", "plot_box"}

\* split_results = results_df[results_df['split'] == split].copy()
PlotFilter ==
    /\ IsPlot /\ pc = "v_filter"
    /\ calls' = Append(calls, Call("read", "split", ""))
    /\ IF "split" \notin columns
       THEN Finish("done", "KeyError")
       ELSE pc' = "v_check_empty" /\ UNCHANGED result
    /\ PlotFrame

\* if len(split_results) == 0: print(...); return
PlotCheckEmpty ==
    /\ IsPlot /\ pc = "v_check_empty"
    /\ IF split \notin row_splits
       THEN /\ calls' = Append(calls, Call("print", "No results found", ""))
            /\ Finish("done", "ok")
       ELSE pc' = "v_group" /\ UNCHANGED <<calls, result>>
    /\ PlotFrame

\* final_results = split_results.sort_values('epoch')
\*                     .groupby(available_cols, as_index=False).last()
\* and the print of the record counts; the scatter plot goes on to print the
\* unique values, the box plot goes to the column check
PlotGroup ==
    /\ IsPlot /\ pc = "v_group"
    /\ LET available_cols == groupby_cols \cap columns
       IN IF "epoch" \notin columns
          THEN Finish("done", "KeyError") /\ UNCHANGED calls
          ELSE IF available_cols = {}
               THEN Finish("done", "ValueError") /\ UNCHANGED calls
               ELSE /\ calls' = Append(calls, Call("print", "Filtered to", ""))
                    /\ pc' = IF entry = "plot_scatter" THEN "v_unique"
                             ELSE "v_check_dropout"
                    /\ UNCHANGED result
    /\ PlotFrame

\* scatter only:
\*   print(f"Unique dropout rates: {sorted(final_results['dropout_rate'].unique())}")
\*   print(f"Unique seeds: {sorted(final_results['seed'].unique())}")
PlotUnique ==
    /\ entry = "plot_scatter" /\ pc = "v_unique"
    /\ IF "dropout_rate" \notin columns
       THEN /\ calls' = Append(calls, Call("read", "dropout_rate", ""))
            /\ Finish("done", "KeyError")
       ELSE IF "seed" \notin columns
            THEN /\ calls' = calls \o <<Call("read", "dropout_rate", ""),
                                        Call("print", "Unique dropout rates", ""),
                                        Call("read", "seed", "")>>
                 /\ Finish("done", "KeyError")
            ELSE /\ calls' = calls \o <<Call("read", "dropout_rate", ""),
                                        Call("print", "Unique dropout rates", ""),
                                        Call("read", "seed", ""),
                                        Call("print", "Unique seeds", "")>>
                 /\ pc' = "v_check_dropout" /\ UNCHANGED result
    /\ PlotFrame

\* if 'dropout_rate' not in final_results.columns: print(...); return
PlotCheckDropout ==
    /\ IsPlot /\ pc = "v_check_dropout"
    /\ IF "dropout_rate" \notin columns
       THEN /\ calls' = calls \o <<Call("check", "dropout_rate", ""),
                       Call("print", "dropout_rate not found in results", "")>>
            /\ Finish("done", "ok")
       ELSE /\ calls' = Append(calls, Call("check", "dropout_rate", ""))
            /\ pc' = "v_figure" /\ UNCHANGED result
    /\ PlotFrame

\* fig, axes = plt.subplots(2, 2, ...); the four metric panels drawn over
\* x='dropout_rate'
PlotFigure ==
    /\ IsPlot /\ pc = "v_figure"
    /\ calls' = calls \o <<Call("plt.subplots", "", ""),
                           Call("read", "dropout_rate", "")>>
    /\ pc' = "v_save"
    /\ UNCHANGED result
    /\ PlotFrame

\* plt.tight_layout(); plt.savefig(output_path, ...); return fig, axes
PlotSave ==
    /\ IsPlot /\ pc = "v_save"
    /\ calls' = Append(calls, Call("plt.savefig", "", ""))
    /\ \E raises \in BOOLEAN :
         IF raises THEN Finish("done", "Exception") ELSE Finish("done", "ok")
    /\ PlotFrame

(***************************************************************************)
(* visualize_results.py: load_all_results.  The records of the file at     *)
(* position i of csv_files are <<i, 1>> .. <<i, n>>.                       *)
(***************************************************************************)
LoadFrame ==
    UNCHANGED <<entry, trainVars, clean_middle_cache, pretrain_datasets,
                finetune_datasets, dataset_names, dataset_configs, bstep,
                histVars, columns, row_splits, split, csv_files>>

\* df = pd.read_csv(csv_file) of a loadable file
ReadCsv(i) == [k \in 1..csv_files[i].n |-> <<i, k>>]

\* pd.concat(frames, ignore_index=True): the records of the frames, in order
RECURSIVE Concat(_)
Concat(frames) ==
    IF frames = <<>> THEN <<>>
    ELSE Head(frames) \o Concat(Tail(frames))

\* the file the loop turns to after pd.read_csv raised on file i of n: the
\* except clause prints a warning and the loop goes on
NextFileAfterFailure_break(i, n) == n + 1

NextFileAfterFailure(i, n) == i + 1

\* csv_files = glob.glob(...); if not csv_files: print(...); return None
LoadGlob ==
    /\ entry = "load_all_results" /\ pc = "l_glob"
    /\ IF csv_files = <<>>
       THEN /\ calls' = Append(calls, Call("print", "No CSV files found", ""))
            /\ results' = [kind |-> "None", rows |-> <<>>]
            /\ Finish("done", "ok")
            /\ UNCHANGED idx
       ELSE /\ calls' = Append(calls, Call("print", "Found CSV files", ""))
            /\ idx' = 1
            /\ pc' = "l_loop"
            /\ UNCHANGED <<result, results>>
    /\ UNCHANGED dfs
    /\ LoadFrame

\* for csv_file in csv_files: try: df = pd.read_csv(csv_file); dfs.append(df)
\* except Exception as e: print(f"Warning: Failed to load ...")
LoadFile ==
    /\ entry = "load_all_results" /\ pc = "l_loop"
    /\ idx <= Len(csv_files)
    /\ IF csv_files[idx].ok
       THEN /\ calls' = Append(calls, Call("read_csv", "", ""))
            /\ dfs' = Append(dfs, ReadCsv(idx))
            /\ idx' = idx + 1
       ELSE /\ calls' = calls \o <<Call("read_csv", "", ""),
                                   Call("print", "Warning: Failed to load", "")>>
            /\ idx' = NextFileAfterFailure(idx, Len(csv_files))
            /\ UNCHANGED dfs
    /\ UNCHANGED <<pc, result, results>>
    /\ LoadFrame

\* if not dfs: print(...); return None
\* results = pd.concat(dfs, ignore_index=True); return results
LoadConcat ==
    /\ entry = "load_all_results" /\ pc = "l_loop"
    /\ idx > Len(csv_files)
    /\ IF dfs = <<>>
       THEN /\ calls' = Append(calls, Call("print", "No CSV files could be loaded", ""))
            /\ results' = [kind |-> "None", rows |-> <<>>]
       ELSE /\ calls' = Append(calls, Call("print", "Loaded total records", ""))
            /\ results' = [kind |-> "DataFrame", rows |-> Concat(dfs)]
    /\ Finish("done", "ok")
    /\ UNCHANGED <<idx, dfs>>
    /\ LoadFrame

(***************************************************************************)
(* The specification.                                                      *)
(***************************************************************************)
Next ==
    \/ baseline_main
    \/ PreprocMain
    \/ PreprocCall
    \/ PreprocLists
    \/ PreprocLoop
    \/ prepare_dataset
    \/ PipelineMain
    \/ PipelineLists
    \/ run_preprocessing_all
    \/ run_preprocessing
    \/ PipelinePreprocEnd
    \/ run_training
    \/ PlotFilter
    \/ PlotCheckEmpty
    \/ PlotGroup
    \/ PlotUnique
    \/ PlotCheckDropout
    \/ PlotFigure
    \/ PlotSave
    \/ LoadGlob
    \/ LoadFile
    \/ LoadConcat

Spec == Init /\ [][Next]_vars

TypeOK ==
    /\ entry \in {"baseline_main", "preproc", "pipeline_main", "plot_scatter",
                  "plot_box", "load_all_results"}
    /\ result \in {"running", "ok", "ValueError", "ValidationError", "KeyError", "Exception"}
    /\ idx \in 1..(MaxPretrain + 2 * MaxFinetune * MaxCalls + 1)
    /\ call_no \in 0..MaxCalls

(***************************************************************************)
(* Vocabulary of the properties.                                           *)
(***************************************************************************)
IsTraining == entry \in {"baseline_main", "pipeline_main"}

Called(op) == op \in Ops(calls)

\* the run got as far as the model dispatch (run_training was entered)
TrainingEntered == entry = "baseline_main" \/ Called("run_training")

BuilderOps ==
    {"builder", "clean_disk_cache", "preproc", "download_and_prepare", "as_dataset"}

IsBuilderOp(e) == e[1] \in BuilderOps

IsAsDataset(e) == e[1] = "as_dataset"

\* the builder calls of the current invocation, in order
BuilderLog == SelectSeq(calls, IsBuilderOp)

\* how many datasets went through every step, as_dataset included
Completed == Len(SelectSeq(calls, IsAsDataset))

\* the pairs the loop iterates over
LoopPairs ==
    [i \in 1..Min(Len(dataset_names), Len(dataset_configs)) |->
        <<dataset_names[i], dataset_configs[i]>>]

ValidPair(p) ==
    /\ p[1] \in DOMAIN DATASET_SELECTOR
    /\ p[2] \in DATASET_SELECTOR[p[1]]

\* preproc(conf) / run_preprocessing_all(conf) has returned or raised
LoopEnded ==
    \/ entry = "preproc" /\ pc = "p_idle" /\ call_no > 0
    \/ entry = "pipeline_main" /\ pc = "r_end"

\* C1: in both entry points a model_type that is not registered (None
\* included) ends the run with ValueError, and get_config_class,
\* create_trainer and trainer.run are never called.
C1_UnknownModelTypeRejected ==
    (IsTraining /\ model_type \notin list_models) =>
        /\ ~Called("get_config_class")
        /\ ~Called("create_trainer")
        /\ ~Called("trainer.run")
        /\ pc \notin {"t_get_config", "t_model_validate", "t_validate_config",
                      "t_mkdir", "t_create_trainer", "t_run"}
        /\ (pc = "done" /\ TrainingEntered) => result = "ValueError"

C1_Witness ==
    /\ entry = "pipeline_main"
    /\ model_type = "unregistered"
    /\ Called("list_models")
    /\ pc = "done"
    /\ result = "ValueError"

\* C2: a builder is constructed (and clean_disk_cache / preproc /
\* download_and_prepare called) only for a dataset that is a key of
\* DATASET_SELECTOR with a config that is a key of its builder_configs; an
\* unknown dataset or config ends the loop with ValueError before a builder
\* for that pair exists.
C2_BuildersOnlyForSupportedPairs ==
    /\ \A i \in 1..Len(BuilderLog) : ValidPair(<<BuilderLog[i][2], BuilderLog[i][3]>>)
    /\ (LoopEnded /\ result = "ok") =>
           \A i \in 1..Len(LoopPairs) : ValidPair(LoopPairs[i])
    /\ (LoopEnded /\ result # "Exception"
          /\ \E i \in 1..Len(LoopPairs) : ~ValidPair(LoopPairs[i])) =>
           /\ result = "ValueError"
           /\ ~ValidPair(LoopPairs[idx])
           /\ Len(Processed(calls)) = idx - 1

C2_Witness ==
    /\ LoopEnded
    /\ result = "ValueError"
    /\ idx = 2
    /\ Len(Processed(calls)) = 1
    /\ dataset_names[idx] \in DOMAIN DATASET_SELECTOR
    /\ dataset_configs[idx] \notin DATASET_SELECTOR[dataset_names[idx]]

\* C3: in both entry points, when validate_config() returns a false value for
\* a registered model type the run ends with ValueError, the output directory
\* is not created and no trainer is created or run.
C3_InvalidConfigRejected ==
    (IsTraining /\ model_type \in list_models /\ ~validate_ok) =>
        /\ ~Called("mkdir")
        /\ ~Called("create_trainer")
        /\ ~Called("trainer.run")
        /\ Called("validate_config") => (pc = "done" /\ result = "ValueError")

C3_Witness ==
    /\ entry = "baseline_main"
    /\ model_type \in list_models
    /\ ~validate_ok
    /\ Called("validate_config")
    /\ pc = "done"
    /\ result = "ValueError"

\* run_training has begun: the model type is being or has been looked up
InModelDispatch ==
    \/ pc \in {"t_model_type", "t_get_config", "t_model_validate",
               "t_validate_config", "t_mkdir", "t_create_trainer", "t_run"}
    \/ Called("run_training")
    \/ Called("list_models")
    \/ Called("validate_config")

\* every configured finetune dataset went through all its builder calls
AllFinetunePreprocessed ==
    /\ Processed(calls) = finetune_datasets
    /\ Completed = Len(finetune_datasets)

\* C4 as stated: in the unified pipeline no dataset builder is invoked until
\* the model-type lookup and validate_config have succeeded, so an unknown
\* model type or an invalid configuration causes no dataset to be preprocessed.
C4_ValidationBeforePreprocessing ==
    entry = "pipeline_main" =>
        /\ Len(BuilderLog) > 0 => (Called("list_models") /\ Called("validate_config"))
        /\ (model_type \notin list_models \/ ~validate_ok) => Len(BuilderLog) = 0

\* C4 as amended: in the unified pipeline preprocessing comes first; the
\* model-type lookup and validate_config happen only after every configured
\* finetune dataset has been preprocessed, so an unknown model type or an
\* invalid configuration is detected with all datasets already preprocessed.
C4_PreprocessingBeforeValidation ==
    (entry = "pipeline_main" /\ InModelDispatch) => AllFinetunePreprocessed

C4_Witness ==
    /\ entry = "pipeline_main"
    /\ model_type = "unregistered"
    /\ pc = "done"
    /\ result = "ValueError"
    /\ Called("list_models")
    /\ Len(finetune_datasets) = 2
    /\ Completed = 2

\* C5: in the unified pipeline the trainer is created and run only after
\* every configured finetune dataset has completed all its preprocessing
\* steps; if preprocessing of a dataset raises, create_trainer and
\* trainer.run are never called.
C5_TrainerAfterPreprocessing ==
    entry = "pipeline_main" =>
        /\ (Called("create_trainer") \/ Called("trainer.run")
              \/ pc \in {"t_create_trainer", "t_run"}) =>
               /\ Completed = Len(finetune_datasets)
               /\ Len(BuilderLog) >= 4 * Len(finetune_datasets)
               /\ \A i \in 1..Len(finetune_datasets) :
                      \E k \in 1..Len(calls) :
                          calls[k] = Call("as_dataset", finetune_datasets[i][1],
                                          finetune_datasets[i][2])
        /\ Completed < Len(Processed(calls)) =>
               /\ ~Called("create_trainer")
               /\ ~Called("trainer.run")
               /\ pc \in {"r_prepare", "r_end", "done"}

C5_Witness ==
    /\ entry = "pipeline_main"
    /\ Len(finetune_datasets) = 2
    /\ Completed = 2
    /\ Called("trainer.run")
    /\ pc = "done"
    /\ result = "ok"

\* C6: preprocessing is fail-stop: the pairs attempted are a prefix of the
\* pairs of the loop, each position attempted at most once; when the pair at
\* position k is invalid or its builder raises, the call ends with that error
\* at once, no position after k is attempted, and the positions before k have
\* been fully processed and stay so.
C6_FailStop ==
    /\ Len(Processed(calls)) <= Len(LoopPairs)
    /\ \A i \in 1..Len(Processed(calls)) : Processed(calls)[i] = LoopPairs[i]
    /\ (LoopEnded /\ result = "ValueError") =>
           /\ idx <= Len(LoopPairs)
           /\ ~ValidPair(LoopPairs[idx])
           /\ \A i \in 1..(idx - 1) : ValidPair(LoopPairs[i])
           /\ Len(Processed(calls)) = idx - 1
           /\ Completed = idx - 1
    /\ (LoopEnded /\ result = "Exception") =>
           /\ idx <= Len(LoopPairs)
           /\ Len(Processed(calls)) = idx
           /\ Completed \in {idx - 1, idx}
           /\ BuilderLog[Len(BuilderLog)][2] = LoopPairs[idx][1]
           /\ BuilderLog[Len(BuilderLog)][3] = LoopPairs[idx][2]

C6_Witness ==
    /\ LoopEnded
    /\ result = "ValueError"
    /\ idx = 2
    /\ Len(LoopPairs) = 3
    /\ Completed = 1
    /\ ValidPair(LoopPairs[3])

\* the builder call that must follow call op of the same builder
FollowsInOrder(op, clean) ==
    IF op = "builder" THEN (IF clean THEN "clean_disk_cache" ELSE "preproc")
    ELSE IF op = "clean_disk_cache" THEN "preproc"
    ELSE IF op = "preproc" THEN "download_and_prepare"
    ELSE IF op = "download_and_prepare" THEN "as_dataset"
    ELSE "builder"

\* C7: for each dataset the builder calls happen in a fixed order, each
\* exactly once: the constructor, clean_disk_cache iff clean_middle_cache,
\* preproc, download_and_prepare, as_dataset; all calls of one dataset come
\* before the constructor of the next.
C7_BuilderCallOrder ==
    /\ Len(BuilderLog) > 0 => BuilderLog[1][1] = "builder"
    /\ \A i \in 1..(Len(BuilderLog) - 1) :
          /\ BuilderLog[i + 1][1] = FollowsInOrder(BuilderLog[i][1], clean_middle_cache)
          /\ BuilderLog[i + 1][1] # "builder" =>
                 /\ BuilderLog[i + 1][2] = BuilderLog[i][2]
                 /\ BuilderLog[i + 1][3] = BuilderLog[i][3]
    /\ Len(BuilderLog) <=
           (IF clean_middle_cache THEN 5 ELSE 4) * Len(Processed(calls))
    /\ Len(BuilderLog) >=
           (IF clean_middle_cache THEN 5 ELSE 4) * Completed

C7_Witness ==
    /\ clean_middle_cache
    /\ Completed = 2
    /\ Len(BuilderLog) = 10
    /\ BuilderLog[2][1] = "clean_disk_cache"
    /\ BuilderLog[6][1] = "builder"

\* the pairs preproc.preproc is to process for the conf it was called with
PreprocReference ==
    [i \in 1..Len(entry_pretrain) |-> <<entry_pretrain[i], "pretrain">>]
        \o finetune_datasets

\* C8: when all pairs are valid (and no builder raises) the pairs processed
\* are, in order and once each: for preproc.preproc every conf.pretrain_datasets
\* entry with config 'pretrain', then the items of conf.finetune_datasets; for
\* run_preprocessing_all the items of finetune_datasets only.
C8_ProcessedEqualsReference ==
    (LoopEnded /\ result = "ok") =>
        /\ entry = "preproc" => Processed(calls) = PreprocReference
        /\ entry = "pipeline_main" => Processed(calls) = finetune_datasets
        /\ Completed = Len(Processed(calls))

C8_Witness ==
    /\ entry = "preproc"
    /\ LoopEnded
    /\ result = "ok"
    /\ call_no = 1
    /\ Len(entry_pretrain) = 2
    /\ Len(finetune_datasets) = 2
    /\ Len(Processed(calls)) = 4

\* C9: preproc(conf) leaves conf unchanged: when it has returned or raised,
\* conf.pretrain_datasets holds the names it held before the call, so a second
\* call on the same conf processes the same pairs as the first.
C9_ConfUnchanged ==
    (entry = "preproc" /\ LoopEnded) =>
        /\ pretrain_datasets = entry_pretrain
        /\ pretrain_datasets = init_pretrain
        /\ (call_no = 2 /\ result = "ok"
              /\ Len(prev_processed) = Len(init_pretrain) + Len(finetune_datasets)) =>
               Processed(calls) = prev_processed

\* the frame lacks nothing but (possibly) the dropout_rate column
FrameSortableAndGroupable ==
    /\ {"split", "epoch"} \subseteq columns
    /\ groupby_cols \cap columns # {}

\* C10: plot_results_by_dropout_scatter handles missing data without raising:
\* with no row of the requested split it prints a message and returns without
\* a figure; with no dropout_rate column it prints 'dropout_rate not found in
\* results' and returns without creating or saving a figure; dropout_rate and
\* seed are not read before the existence check.
C10_ScatterHandlesMissingData ==
    entry = "plot_scatter" =>
        /\ (pc = "done" /\ "split" \in columns /\ split \notin row_splits) =>
               /\ result = "ok"
               /\ Called("print")
               /\ ~Called("plt.subplots")
        /\ (pc = "done" /\ FrameSortableAndGroupable /\ split \in row_splits
              /\ "dropout_rate" \notin columns) =>
               /\ result = "ok"
               /\ \E k \in 1..Len(calls) :
                      calls[k] = Call("print", "dropout_rate not found in results", "")
               /\ ~Called("plt.subplots")
               /\ ~Called("plt.savefig")
        /\ \A k \in 1..Len(calls) :
               calls[k] \in {Call("read", "dropout_rate", ""), Call("read", "seed", "")} =>
                   \E j \in 1..(k - 1) : calls[j] = Call("check", "dropout_rate", "")

\* the positions of the matched files pd.read_csv can load
Loadable == {i \in 1..Len(csv_files) : csv_files[i].ok}

\* the records of the loadable files
LoadableRecords ==
    {r \in (1..Len(csv_files)) \X (1..MaxRows) :
        r[1] \in Loadable /\ r[2] <= csv_files[r[1]].n}

\* record r comes before record q: an earlier file, or earlier in the same file
RecordBefore(r, q) == r[1] < q[1] \/ (r[1] = q[1] /\ r[2] < q[2])

IsReadCsv(e) == e[1] = "read_csv"

IsWarning(e) == e = Call("print", "Warning: Failed to load", "")

\* C11: load_all_results tries every matched file; a file that fails to load
\* is skipped with a warning and the remaining files are still loaded; the
\* result holds exactly the records of the files that loaded, in file order;
\* None is returned iff no file matched or no matched file could be loaded.
C11_LoadAllResults ==
    (entry = "load_all_results" /\ pc = "done") =>
        /\ result = "ok"
        /\ Len(SelectSeq(calls, IsReadCsv)) = Len(csv_files)
        /\ Len(SelectSeq(calls, IsWarning)) = Len(csv_files) - Cardinality(Loadable)
        /\ Len(dfs) = Cardinality(Loadable)
        /\ results.kind = "None" <=> (csv_files = <<>> \/ Loadable = {})
        /\ results.kind # "None" =>
               /\ results.kind = "DataFrame"
               /\ Len(results.rows) = Cardinality(LoadableRecords)
               /\ {results.rows[k] : k \in 1..Len(results.rows)} = LoadableRecords
               /\ \A j, k \in 1..Len(results.rows) :
                      j < k => RecordBefore(results.rows[j], results.rows[k])

C11_Witness ==
    /\ entry = "load_all_results"
    /\ pc = "done"
    /\ Len(csv_files) = 3
    /\ csv_files[1].ok /\ csv_files[1].n = 2
    /\ ~csv_files[2].ok
    /\ csv_files[3].ok /\ csv_files[3].n = 1
    /\ results.kind = "DataFrame"
    /\ results.rows = <<<<1, 1>>, <<1, 2>>, <<3, 1>>>>

====
